---------------------------- MODULE Spec2Model ----------------------------
(***************************************************************************)
(* Model of .github/scripts/update_manifest.py: the release helper that    *)
(* reads manifest.json, inserts or replaces one entry of element 0's       *)
(* `versions` list and rewrites the whole file.                            *)
(*                                                                         *)
(* A JSON object is a record, a JSON array a sequence.  The bytes of       *)
(* manifest.json are a record whose `kind` says how they relate to a       *)
(* document: json.load and json.dump are modelled through that record, so  *)
(* that a file and the document it parses to are different things.         *)
(* Python indexes from 0, TLA+ sequences from 1: an index variable holds   *)
(* the Python index, and PyAt / PySet do the shift.                        *)
(***************************************************************************)
EXTENDS Integers, Sequences, FiniteSets, TLC

VARIABLES
    file,            \* the bytes of manifest.json on disk
    pc,              \* pc[p]: where invocation p stands in the script
    argv,            \* argv[p]: sys.argv[1:] of invocation p
    manifest,        \* manifest[p]: the local `manifest` (line 9)
    existing_index,  \* existing_index[p]: the local of lines 23-27 (-1: None)
    stdout,          \* stdout[p]: the lines invocation p printed
    exit,            \* exit[p]: exit status (-1: still running)
    dirty,           \* dirty[p]: another writer touched the file since p opened it
    left,            \* left[p]: invocations runner p may still start
    pre,             \* history: pre[p] is the file when invocation p started
    file0,           \* history: the file before any invocation
    confirmed,       \* history: versions whose confirmation was printed
    killed,          \* history: some invocation was killed
    overlap,         \* history: two invocations were running at once
    prev             \* history: prev[p] is what runner p's previous invocation was

vars == <<file, pc, argv, manifest, existing_index, stdout, exit, dirty, left,
          pre, file0, confirmed, killed, overlap, prev>>

(***************************************************************************)
(* Bounds of the model.                                                    *)
(***************************************************************************)
MaxRuns == 3     \* invocations the single runner starts, one after the other
MaxArgc == 6     \* largest number of positional arguments tried

Procs == {1, 2}

(***************************************************************************)
(* Argument values.                                                        *)
(***************************************************************************)
Versions   == {"1.0", "1.1"}
Checksums  == {"abc", "def"}
Timestamps == {"t1"}
Changelogs == {"notes"}
Tags       == {"v1.0", "v1.1"}

GoodArgv == {<<v, c, t, l, g>> : v \in Versions, c \in Checksums,
                                 t \in Timestamps, l \in Changelogs, g \in Tags}
BadArgv  == {[i \in 1..n |-> "1.0"] : n \in (0..MaxArgc) \ {5}}

(***************************************************************************)
(* Python sequence access with 0-based indices.                            *)
(***************************************************************************)
PyAt(s, i) == s[i + 1]
PySet(s, i, x) == [s EXCEPT ![i + 1] = x]
PyInsertFront(s, x) == <<x>> \o s

(***************************************************************************)
(* The bytes of manifest.json.                                             *)
(*   missing  no such file                                                 *)
(*   garbage  bytes that are not JSON                                      *)
(*   hand     JSON text of `doc` in some other layout than json.dump's     *)
(*   empty    zero bytes (just truncated by open(..., 'w'))                *)
(*   prefix   a non-empty proper prefix of json.dump(doc, indent=4) that   *)
(*            ends before the closing bracket                             *)
(*   nonl     all of json.dump(doc, indent=4), the trailing newline not    *)
(*            yet written                                                  *)
(*   full     json.dump(doc, indent=4) followed by the newline             *)
(*   mixed    bytes of two writers laid over each other                    *)
(***************************************************************************)
Missing    == [kind |-> "missing"]
Garbage    == [kind |-> "garbage"]
Empty      == [kind |-> "empty"]
Mixed      == [kind |-> "mixed"]
Hand(d)    == [kind |-> "hand", doc |-> d]
Prefix(d)  == [kind |-> "prefix", doc |-> d]
NoNl(d)    == [kind |-> "nonl", doc |-> d]
Full(d)    == [kind |-> "full", doc |-> d]

\* json.load succeeds on a complete JSON text (trailing whitespace or its
\* absence does not matter), and fails on everything else.
Parses(f) == f.kind \in {"hand", "nonl", "full"}
JsonLoad(f) == f.doc

\* json.dump(manifest, f, indent=4): the text handed to the file object.
JsonDump(d) == NoNl(d)
\* f.write('\n') after the dump.
WithNewline(f) == Full(f.doc)


(***************************************************************************)
(* Manifest documents the script may find on disk.                         *)
(***************************************************************************)
\* An entry written by an earlier release: another targetAbi, one extra field.
OldEntry(v, c) ==
    [version |-> v, changelog |-> "old", targetAbi |-> "10.9.0.0",
     sourceUrl |-> "http://old/" \o v, checksum |-> c, timestamp |-> "t0",
     extra |-> "x"]
\* An entry without a `version` field.
NoVersionEntry == [changelog |-> "old"]

Element0(vs) == [guid |-> "g", name |-> "SubsRo", versions |-> vs]
NoVersionsElement == [guid |-> "g", name |-> "SubsRo"]
OtherElement == [guid |-> "h", name |-> "Other"]

InitVersionLists ==
    { <<>>,
      <<OldEntry("1.0", "o1")>>,
      <<OldEntry("0.9", "o1"), OldEntry("1.1", "o2"), OldEntry("1.0", "o3")>>,
      <<OldEntry("1.0", "o1"), OldEntry("1.1", "o2"), OldEntry("1.0", "o3")>>,
      <<OldEntry("1.0", "o1"), NoVersionEntry>>,
      <<NoVersionEntry, OldEntry("1.0", "o1")>> }

InitDocs ==
    {<<Element0(vs)>> : vs \in InitVersionLists}
    \cup { <<Element0(<<OldEntry("1.1", "o1")>>), OtherElement>>,
           <<NoVersionsElement>>,
           <<>> }

InitFiles == {Missing, Garbage} \cup {Hand(d) : d \in InitDocs}

(***************************************************************************)
(* update_manifest, lines 11-36: the pure part.                            *)
(***************************************************************************)
SourceUrl(tag_name, version) ==
    "https://github.com/replsv/jellyfin-subsro/releases/download/" \o tag_name
        \o "/jellyfin-subsro-" \o version \o ".zip"

NewVersion(version, checksum, timestamp, changelog, tag_name) ==
    [version |-> version,
     changelog |-> changelog,
     targetAbi |-> "10.11.5.0",
     sourceUrl |-> SourceUrl(tag_name, version),
     checksum |-> checksum,
     timestamp |-> timestamp]

\* new_version as main() passes sys.argv[1..5] to update_manifest.
NewVersionOf(a) == NewVersion(a[1], a[2], a[3], a[4], a[5])

\* Variant of ScanFrom: reads the field with v.get("version"), so that an
\* entry without it is passed over instead of raising.
RECURSIVE ScanFromSkipping(_, _, _)
ScanFromSkipping(versions, version, i) ==
    IF i >= Len(versions)
    THEN [raised |-> FALSE, index |-> -1]
    ELSE IF "version" \in DOMAIN PyAt(versions, i)
            /\ PyAt(versions, i).version = version
         THEN [raised |-> FALSE, index |-> i]
         ELSE ScanFromSkipping(versions, version, i + 1)

\* Lines 23-27 from Python index i on: the index of the first entry whose
\* version is `version`, -1 (None) when the loop ends without one; `raised`
\* when v["version"] is a KeyError on an entry the loop reaches.
RECURSIVE ScanFrom(_, _, _)
ScanFrom(versions, version, i) ==
    IF i >= Len(versions)
    THEN [raised |-> FALSE, index |-> -1]
    ELSE IF "version" \notin DOMAIN PyAt(versions, i)
         THEN [raised |-> TRUE, index |-> -1]
         ELSE IF PyAt(versions, i).version = version
              THEN [raised |-> FALSE, index |-> i]
              ELSE ScanFrom(versions, version, i + 1)

\* Variant of Scan: the loop starts at index 1.
ScanAfterFirst(versions, version) == ScanFrom(versions, version, 1)

Scan(versions, version) == ScanFrom(versions, version, 0)

\* Variant of Replaced: versions.insert(existing_index, new_version).
ReplacedByInsert(versions, idx, new_version) ==
    SubSeq(versions, 1, idx) \o <<new_version>>
        \o SubSeq(versions, idx + 1, Len(versions))

\* Variant of Replaced: versions[existing_index].update(new_version).
ReplacedMerging(versions, idx, new_version) ==
    LET old == PyAt(versions, idx)
    IN  PySet(versions, idx,
              [k \in DOMAIN old \cup DOMAIN new_version |->
                  IF k \in DOMAIN new_version THEN new_version[k] ELSE old[k]])

\* Variant of Inserted: versions.append(new_version).
InsertedAtEnd(versions, new_version) == Append(versions, new_version)

\* Variant of Inserted: versions = [new_version].
InsertedAlone(versions, new_version) == <<new_version>>

\* Variant of UpdatedVersions: the found index is ignored.
UpdatedVersionsAlwaysInsert(versions, idx, new_version) ==
    PyInsertFront(versions, new_version)

\* Lines 29-34.
Replaced(versions, idx, new_version) ==
    PySet(versions, idx, new_version)
Inserted(versions, new_version) ==
    PyInsertFront(versions, new_version)
UpdatedVersions(versions, idx, new_version) ==
    IF idx # -1
    THEN Replaced(versions, idx, new_version)
    ELSE Inserted(versions, new_version)

\* manifest[0]["versions"] (line 22) is an IndexError or a KeyError.
LookupRaises(m) ==
    IF Len(m) = 0 THEN TRUE ELSE "versions" \notin DOMAIN PyAt(m, 0)

\* Lines 22-27 raise.
UpdateRaises(m, version) ==
    IF LookupRaises(m) THEN TRUE
    ELSE Scan(PyAt(m, 0).versions, version).raised

\* Variant of UpdatedManifest: only element 0 is kept.
UpdatedManifestFirstOnly(m, new_version) ==
    LET versions == PyAt(m, 0).versions
        idx == Scan(versions, new_version.version).index
    IN  << [PyAt(m, 0) EXCEPT
              !.versions = UpdatedVersions(versions, idx, new_version)] >>

\* The document after lines 22-36.
UpdatedManifest(m, new_version) ==
    LET versions == PyAt(m, 0).versions
        idx == Scan(versions, new_version.version).index
    IN  PySet(m, 0, [PyAt(m, 0) EXCEPT
                       !.versions = UpdatedVersions(versions, idx, new_version)])

(***************************************************************************)
(* Positions of an invocation.                                             *)
(***************************************************************************)
Terminal == {"usage", "error", "done", "killed"}
Writing  == {"opened", "dumped", "written"}
Active   == {"main", "loaded", "updated", "closed"} \cup Writing

InitLocals ==
    /\ pc = [p \in Procs |-> "idle"]
    /\ argv = [p \in Procs |-> <<>>]
    /\ manifest = [p \in Procs |-> <<>>]
    /\ existing_index = [p \in Procs |-> -1]
    /\ stdout = [p \in Procs |-> <<>>]
    /\ exit = [p \in Procs |-> -1]
    /\ dirty = [p \in Procs |-> FALSE]
    /\ pre = [p \in Procs |-> file]
    /\ file0 = file
    /\ confirmed = {}
    /\ killed = FALSE
    /\ overlap = FALSE
    /\ prev = [p \in Procs |-> [argv |-> <<>>, ok |-> FALSE]]

\* One CI runner: invocations follow each other.
Init ==
    /\ file \in InitFiles
    /\ left = [p \in Procs |-> IF p = 1 THEN MaxRuns ELSE 0]
    /\ InitLocals

\* Two runners on the same working directory, one invocation each.
InitConc ==
    /\ file \in InitFiles
    /\ left = [p \in Procs |-> 1]
    /\ InitLocals

\* The script is started with some argument list.
Start(p) ==
    /\ pc[p] \in Terminal \cup {"idle"}
    /\ left[p] > 0
    /\ \E a \in GoodArgv \cup BadArgv : argv' = [argv EXCEPT ![p] = a]
    /\ pc' = [pc EXCEPT ![p] = "main"]
    /\ manifest' = [manifest EXCEPT ![p] = <<>>]
    /\ existing_index' = [existing_index EXCEPT ![p] = -1]
    /\ stdout' = [stdout EXCEPT ![p] = <<>>]
    /\ exit' = [exit EXCEPT ![p] = -1]
    /\ dirty' = [dirty EXCEPT ![p] = FALSE]
    /\ left' = [left EXCEPT ![p] = @ - 1]
    /\ pre' = [pre EXCEPT ![p] = file]
    /\ overlap' = (overlap \/ \E q \in Procs \ {p} : pc[q] \in Active)
    /\ prev' = [prev EXCEPT ![p] = [argv |-> argv[p], ok |-> pc[p] = "done"]]
    /\ UNCHANGED <<file, file0, confirmed, killed>>

\* Variant of ArgcOk: len(sys.argv) < 6 is the only count refused.
ArgcAtLeast(p) == Len(argv[p]) + 1 >= 6

\* len(sys.argv) counts the program name.
ArgcOk(p) == Len(argv[p]) + 1 = 6

\* Lines 45-47.
Usage(p) ==
    /\ pc[p] = "main"
    /\ ~ArgcOk(p)
    /\ stdout' = [stdout EXCEPT ![p] = Append(@, <<"usage">>)]
    /\ exit' = [exit EXCEPT ![p] = 1]
    /\ pc' = [pc EXCEPT ![p] = "usage"]
    /\ UNCHANGED <<file, argv, manifest, existing_index, dirty, left, pre,
                   file0, confirmed, killed, overlap, prev>>

\* Lines 8-9 succeed.
Load(p) ==
    /\ pc[p] = "main"
    /\ ArgcOk(p)
    /\ Parses(file)
    /\ manifest' = [manifest EXCEPT ![p] = JsonLoad(file)]
    /\ pc' = [pc EXCEPT ![p] = "loaded"]
    /\ UNCHANGED <<file, argv, existing_index, stdout, exit, dirty, left, pre,
                   file0, confirmed, killed, overlap, prev>>

\* An exception nobody catches: traceback on stderr, exit status 1.
Unhandled(p) ==
    /\ exit' = [exit EXCEPT ![p] = 1]
    /\ pc' = [pc EXCEPT ![p] = "error"]
    /\ UNCHANGED <<file, argv, manifest, existing_index, stdout, dirty, left,
                   pre, file0, confirmed, killed, overlap, prev>>

\* Lines 8-9 raise FileNotFoundError or JSONDecodeError.
LoadFail(p) ==
    /\ pc[p] = "main"
    /\ ArgcOk(p)
    /\ ~Parses(file)
    /\ Unhandled(p)

\* Lines 11-36 run through.
Update(p) ==
    /\ pc[p] = "loaded"
    /\ ~UpdateRaises(manifest[p], argv[p][1])
    /\ existing_index' = [existing_index EXCEPT ![p] =
           Scan(PyAt(manifest[p], 0).versions, argv[p][1]).index]
    /\ manifest' = [manifest EXCEPT ![p] =
           UpdatedManifest(manifest[p], NewVersionOf(argv[p]))]
    /\ pc' = [pc EXCEPT ![p] = "updated"]
    /\ UNCHANGED <<file, argv, stdout, exit, dirty, left, pre, file0,
                   confirmed, killed, overlap, prev>>

\* Lines 22-25 raise IndexError or KeyError.
UpdateFail(p) ==
    /\ pc[p] = "loaded"
    /\ UpdateRaises(manifest[p], argv[p][1])
    /\ Unhandled(p)

(***************************************************************************)
(* Lines 38-40.  The file object buffers: what json.dump and f.write hand  *)
(* it reaches the disk when a buffer fills, and at the latest when the     *)
(* with block closes the file.  Each writer has its own file position, so  *)
(* a writer whose file was touched by another one in the meantime may      *)
(* leave the other's bytes in place or lay its own over them.              *)
(***************************************************************************)
\* What the disk may hold after writer p has flushed up to `target`.
DiskAfter(p, target) ==
    IF dirty[p] THEN {target, Mixed, file} ELSE {target}

\* The other writers that hold the file open see it change under them.
Touch(p) ==
    dirty' = [q \in Procs |->
                 IF q # p /\ pc[q] \in Writing /\ file' # file
                 THEN TRUE ELSE dirty[q]]

\* Variant of OpenWrite: the file is opened without being truncated.
OpenWriteNoTruncate(p) ==
    /\ pc[p] = "updated"
    /\ file' = file
    /\ dirty' = [dirty EXCEPT ![p] = FALSE]
    /\ pc' = [pc EXCEPT ![p] = "opened"]
    /\ UNCHANGED <<argv, manifest, existing_index, stdout, exit, left, pre,
                   file0, confirmed, killed, overlap, prev>>

\* Line 38: open(..., 'w') truncates.
OpenWrite(p) ==
    /\ pc[p] = "updated"
    /\ file' = Empty
    /\ dirty' = [q \in Procs |->
                    IF q = p THEN FALSE
                    ELSE IF pc[q] \in Writing THEN TRUE ELSE dirty[q]]
    /\ pc' = [pc EXCEPT ![p] = "opened"]
    /\ UNCHANGED <<argv, manifest, existing_index, stdout, exit, left, pre,
                   file0, confirmed, killed, overlap, prev>>

\* Line 39: nothing, a part, or all of the text has reached the disk.
Dump(p) ==
    /\ pc[p] = "opened"
    /\ file' \in {file} \cup DiskAfter(p, Prefix(manifest[p]))
                        \cup DiskAfter(p, JsonDump(manifest[p]))
    /\ Touch(p)
    /\ pc' = [pc EXCEPT ![p] = "dumped"]
    /\ UNCHANGED <<argv, manifest, existing_index, stdout, exit, left, pre,
                   file0, confirmed, killed, overlap, prev>>

\* Line 40: the newline is buffered, or the buffer is flushed with it.
WriteNewline(p) ==
    /\ pc[p] = "dumped"
    /\ file' \in {file} \cup DiskAfter(p, WithNewline(JsonDump(manifest[p])))
    /\ Touch(p)
    /\ pc' = [pc EXCEPT ![p] = "written"]
    /\ UNCHANGED <<argv, manifest, existing_index, stdout, exit, left, pre,
                   file0, confirmed, killed, overlap, prev>>

\* The end of the with block: the file is flushed and closed.
Close(p) ==
    /\ pc[p] = "written"
    /\ file' \in DiskAfter(p, WithNewline(JsonDump(manifest[p])))
    /\ Touch(p)
    /\ pc' = [pc EXCEPT ![p] = "closed"]
    /\ UNCHANGED <<argv, manifest, existing_index, stdout, exit, left, pre,
                   file0, confirmed, killed, overlap, prev>>

\* Line 42, then the script ends with status 0.
Confirm(p) ==
    /\ pc[p] = "closed"
    /\ stdout' = [stdout EXCEPT ![p] = Append(@, <<"updated", argv[p][1]>>)]
    /\ exit' = [exit EXCEPT ![p] = 0]
    /\ pc' = [pc EXCEPT ![p] = "done"]
    /\ confirmed' = confirmed \cup {argv[p][1]}
    /\ UNCHANGED <<file, argv, manifest, existing_index, dirty, left, pre,
                   file0, killed, overlap, prev>>

\* The process is killed from outside: what its buffers hold is lost.
Kill(p) ==
    /\ pc[p] \in Active
    /\ pc' = [pc EXCEPT ![p] = "killed"]
    /\ exit' = [exit EXCEPT ![p] = 137]
    /\ killed' = TRUE
    /\ UNCHANGED <<file, argv, manifest, existing_index, stdout, dirty, left,
                   pre, file0, confirmed, overlap, prev>>

Step(p) ==
    \/ Start(p)
    \/ Usage(p)
    \/ Load(p)
    \/ LoadFail(p)
    \/ Update(p)
    \/ UpdateFail(p)
    \/ OpenWrite(p)
    \/ Dump(p)
    \/ WriteNewline(p)
    \/ Close(p)
    \/ Confirm(p)
    \/ Kill(p)

Next == \E p \in Procs : Step(p)

Spec == Init /\ [][Next]_vars
SpecConc == InitConc /\ [][Next]_vars

(***************************************************************************)
(* Vocabulary of the properties.  An invocation p has succeeded when it    *)
(* stands at "done"; under Spec the file is then what it wrote, and        *)
(* pre[p] what it found.                                                   *)
(***************************************************************************)
\* The manifest has the expected shape: an array whose element 0 has a
\* `versions` list of entries each carrying a `version` field.
ExpectedShape(f) ==
    /\ Parses(f)
    /\ Len(f.doc) > 0
    /\ "versions" \in DOMAIN f.doc[1]
    /\ \A i \in 1..Len(f.doc[1].versions) :
           "version" \in DOMAIN f.doc[1].versions[i]

VersionsIn(f) == f.doc[1].versions

\* The positions (from 1) of the entries of vs whose version is ver.
Positions(vs, ver) ==
    {i \in 1..Len(vs) : "version" \in DOMAIN vs[i] /\ vs[i].version = ver}

Lowest(S) == CHOOSE i \in S : \A j \in S : i <= j

Distinct(vs) ==
    \A i, j \in 1..Len(vs) : vs[i].version = vs[j].version => i = j

\* The download URL of a release, spelled out.
UrlOf(tag, ver) ==
    "https://github.com/replsv/jellyfin-subsro/releases/download/" \o tag
        \o "/jellyfin-subsro-" \o ver \o ".zip"

\* Entry e carries the arguments a = <<version, checksum, timestamp,
\* changelog, tag_name>>.
Carries(e, a) ==
    /\ e.version = a[1]
    /\ e.checksum = a[2]
    /\ e.timestamp = a[3]
    /\ e.changelog = a[4]
    /\ e.sourceUrl = UrlOf(a[5], a[1])

ExactlyOneCarrying(f, a) ==
    /\ ExpectedShape(f)
    /\ Cardinality(Positions(VersionsIn(f), a[1])) = 1
    /\ \A i \in Positions(VersionsIn(f), a[1]) : Carries(VersionsIn(f)[i], a)

(***************************************************************************)
(* C1 as stated: for every manifest of the expected shape, after a         *)
(* successful invocation exactly one entry of `versions` has the supplied  *)
(* version, and it carries the supplied checksum, changelog, timestamp and *)
(* the computed sourceUrl.  Fails when the manifest already holds the      *)
(* version twice: only the first of them is replaced.                      *)
(***************************************************************************)
C1_ExactlyOneForEveryManifest ==
    \A p \in Procs :
        (pc[p] = "done" /\ ExpectedShape(pre[p]))
            => ExactlyOneCarrying(file, argv[p])

(***************************************************************************)
(* C1 amended: for every manifest of the expected shape in which at most   *)
(* one entry has the supplied version, after a successful invocation       *)
(* exactly one entry has it, and that entry carries the supplied checksum, *)
(* changelog, timestamp and the computed sourceUrl.                        *)
(***************************************************************************)
C1_ExactlyOneWhenNotDuplicated ==
    \A p \in Procs :
        (/\ pc[p] = "done"
         /\ ExpectedShape(pre[p])
         /\ Cardinality(Positions(VersionsIn(pre[p]), argv[p][1])) <= 1)
            => ExactlyOneCarrying(file, argv[p])

\* An invocation has replaced the single entry of its version in a list of
\* three.
C1_Witness ==
    /\ pc[1] = "done"
    /\ ExpectedShape(pre[1])
    /\ Len(VersionsIn(pre[1])) = 3
    /\ Cardinality(Positions(VersionsIn(pre[1]), argv[1][1])) = 1
    /\ argv[1][2] = "def"

(***************************************************************************)
(* C2: idempotence.  When an invocation succeeds right after a successful  *)
(* invocation with the same arguments, manifest.json is byte for byte the  *)
(* file the first one left.                                                *)
(***************************************************************************)
C2_Idempotent ==
    \A p \in Procs :
        (pc[p] = "done" /\ prev[p].ok /\ prev[p].argv = argv[p])
            => file = pre[p]

\* The second of two identical successful invocations has ended.
C2_Witness ==
    /\ pc[1] = "done"
    /\ prev[1].ok
    /\ prev[1].argv = argv[1]
    /\ file = Full(manifest[1])
    /\ Len(VersionsIn(file)) >= 2

(***************************************************************************)
(* C3: placement.  After a successful invocation: if no entry had the      *)
(* supplied version, the new entry is at index 0 and the list is one       *)
(* longer; otherwise the new entry is at the lowest index whose entry had  *)
(* that version and the length is unchanged.                               *)
(***************************************************************************)
C3_Placement ==
    \A p \in Procs :
        pc[p] = "done" =>
            LET old == VersionsIn(pre[p])
                new == VersionsIn(file)
                at  == Positions(old, argv[p][1])
            IN  IF at = {}
                THEN /\ Len(new) = Len(old) + 1
                     /\ new[1] = NewVersionOf(argv[p])
                ELSE /\ Len(new) = Len(old)
                     /\ new[Lowest(at)] = NewVersionOf(argv[p])

\* The scenario of the specification: from [1.0], 1.1 was put in front, and
\* 1.0 has now been replaced at index 1, the length still 2.
C3_Witness ==
    /\ pc[1] = "done"
    /\ file0 = Hand(<<Element0(<<OldEntry("1.0", "o1")>>)>>)
    /\ argv[1][1] = "1.0"
    /\ Len(VersionsIn(pre[1])) = 2
    /\ Len(VersionsIn(file)) = 2
    /\ VersionsIn(file)[1].version = "1.1"
    /\ VersionsIn(file)[2] = NewVersionOf(argv[1])
    /\ VersionsIn(pre[1])[2] = OldEntry("1.0", "o1")

(***************************************************************************)
(* C4: usage error.  An invocation with any number of positional arguments *)
(* other than 5 never gets past the argument check: it can only end by     *)
(* printing the usage message and exiting with status 1; it never loads    *)
(* the manifest, the file stays what it was, and no confirmation is        *)
(* printed.                                                                *)
(***************************************************************************)
C4_UsageError ==
    \A p \in Procs :
        (pc[p] # "idle" /\ Len(argv[p]) # 5) =>
            /\ pc[p] \in {"main", "usage", "killed"}
            /\ manifest[p] = <<>>
            /\ file = pre[p]
            /\ \A i \in 1..Len(stdout[p]) : stdout[p][i][1] # "updated"
            /\ pc[p] = "usage" =>
                   (exit[p] = 1 /\ stdout[p] = << <<"usage">> >>)
            /\ pc[p] # "usage" => stdout[p] = <<>>

\* The scenario of the specification: 3 arguments, a manifest that would
\* have been updated.
C4_Witness ==
    /\ pc[1] = "usage"
    /\ Len(argv[1]) = 3
    /\ ExpectedShape(file)
    /\ file = file0

(***************************************************************************)
(* C5: the entry a successful invocation leaves at its position is exactly *)
(* the record of the six fields version, changelog, targetAbi, sourceUrl,  *)
(* checksum, timestamp, with targetAbi "10.11.5.0" and the download URL of *)
(* tag_name and version; nothing of a replaced entry survives.             *)
(***************************************************************************)
SixFields ==
    {"version", "changelog", "targetAbi", "sourceUrl", "checksum", "timestamp"}

C5_EntryWritten ==
    \A p \in Procs :
        pc[p] = "done" =>
            LET at == Positions(VersionsIn(pre[p]), argv[p][1])
                e  == VersionsIn(file)[IF at = {} THEN 1 ELSE Lowest(at)]
            IN  /\ DOMAIN e = SixFields
                /\ e.targetAbi = "10.11.5.0"
                /\ e.sourceUrl = UrlOf(argv[p][5], argv[p][1])
                /\ e.version = argv[p][1]
                /\ e.checksum = argv[p][2]
                /\ e.timestamp = argv[p][3]
                /\ e.changelog = argv[p][4]

\* An entry with another targetAbi and an extra field has been replaced.
C5_Witness ==
    /\ pc[1] = "done"
    /\ existing_index[1] = 2
    /\ VersionsIn(pre[1])[3].targetAbi = "10.9.0.0"
    /\ "extra" \in DOMAIN VersionsIn(pre[1])[3]
    /\ argv[1][5] # "v" \o argv[1][1]

(***************************************************************************)
(* C6: read-side failures.  When manifest.json is missing, is not valid    *)
(* JSON, has no element 0, has no `versions` in element 0, or has an entry *)
(* without `version` that the scan reaches, the invocation ends as an      *)
(* unhandled error with a non-zero status: it never opens the file for     *)
(* writing, the file stays what it was, and nothing is printed.            *)
(***************************************************************************)
\* Entry i of vs has no version and no entry before it has version ver.
ScanReaches(vs, ver, i) ==
    /\ "version" \notin DOMAIN vs[i]
    /\ \A j \in 1..(i - 1) : "version" \in DOMAIN vs[j] /\ vs[j].version # ver

ReadSideFailure(f, ver) ==
    IF ~Parses(f) THEN TRUE
    ELSE IF Len(f.doc) = 0 THEN TRUE
    ELSE IF "versions" \notin DOMAIN f.doc[1] THEN TRUE
    ELSE \E i \in 1..Len(VersionsIn(f)) : ScanReaches(VersionsIn(f), ver, i)

C6_ReadSideFailure ==
    \A p \in Procs :
        (pc[p] # "idle" /\ Len(argv[p]) = 5) =>
            /\ ReadSideFailure(pre[p], argv[p][1]) =>
                   /\ pc[p] \in {"main", "loaded", "error", "killed"}
                   /\ file = pre[p]
                   /\ stdout[p] = <<>>
            /\ pc[p] = "error" =>
                   /\ ReadSideFailure(pre[p], argv[p][1])
                   /\ exit[p] # 0 /\ exit[p] # -1

\* The scan has run into an entry without `version` behind an entry of
\* another version.
C6_Witness ==
    /\ pc[1] = "error"
    /\ pre[1] = Hand(<<Element0(<<OldEntry("1.0", "o1"), NoVersionEntry>>)>>)
    /\ argv[1][1] = "1.1"
    /\ file = pre[1]

(***************************************************************************)
(* C9: frame.  A successful invocation changes only the inserted or        *)
(* replaced position: on insertion every old entry moves from index i to   *)
(* i+1, on replacement every other entry keeps its index; every other      *)
(* field of element 0 and every other element of the array is unchanged.   *)
(***************************************************************************)
C9_Frame ==
    \A p \in Procs :
        pc[p] = "done" =>
            LET old == VersionsIn(pre[p])
                new == VersionsIn(file)
                at  == Positions(old, argv[p][1])
                d0  == pre[p].doc
                d1  == file.doc
            IN  /\ IF at = {}
                   THEN \A i \in 1..Len(old) : new[i + 1] = old[i]
                   ELSE \A i \in 1..Len(old) :
                            i # Lowest(at) => new[i] = old[i]
                /\ Len(d1) = Len(d0)
                /\ \A j \in 2..Len(d0) : d1[j] = d0[j]
                /\ DOMAIN d1[1] = DOMAIN d0[1]
                /\ \A k \in DOMAIN d0[1] \ {"versions"} : d1[1][k] = d0[1][k]

\* In a manifest with a second element, the entry at index 1 has been
\* replaced behind an entry that an earlier invocation had put in front.
C9_Witness ==
    /\ pc[1] = "done"
    /\ Len(file.doc) = 2
    /\ Len(VersionsIn(pre[1])) = 2
    /\ existing_index[1] = 1
    /\ VersionsIn(file)[1] = VersionsIn(pre[1])[1]
    /\ VersionsIn(file)[2] # VersionsIn(pre[1])[2]

(***************************************************************************)
(* C10: key uniqueness.  From a manifest whose entries have pairwise       *)
(* distinct versions, whenever the runner is between invocations and none  *)
(* was killed, the entries still have pairwise distinct versions, and the  *)
(* list is as long as it was at first plus the number of distinct          *)
(* confirmed versions that were not in it at first.                        *)
(***************************************************************************)
VersionSet(vs) == {vs[i].version : i \in 1..Len(vs)}

C10_KeysStayUnique ==
    (/\ ExpectedShape(file0)
     /\ Distinct(VersionsIn(file0))
     /\ ~killed
     /\ \A p \in Procs : pc[p] \in {"idle", "done", "usage", "error"})
        => /\ ExpectedShape(file)
           /\ Distinct(VersionsIn(file))
           /\ Len(VersionsIn(file)) =
                  Len(VersionsIn(file0))
                  + Cardinality(confirmed \ VersionSet(VersionsIn(file0)))

\* Three successful invocations, one version repeated, one already there.
C10_Witness ==
    /\ pc[1] = "done"
    /\ left[1] = 0
    /\ ~killed
    /\ file0 = Hand(<<Element0(<<OldEntry("1.0", "o1")>>)>>)
    /\ confirmed = {"1.0", "1.1"}
    /\ prev[1].ok /\ prev[1].argv[1] = "1.1" /\ argv[1][1] = "1.1"
    /\ Len(VersionsIn(file)) = 2

(***************************************************************************)
(* C8 as stated: a crash is not atomic.  Whenever an invocation is killed: *)
(* it has printed no confirmation; if it had not yet opened the file for   *)
(* writing, the file is the one it found; if it had opened it and the      *)
(* text and its newline are not completely on disk, the file is empty or   *)
(* partial, and is neither the file it found nor the updated file.  Fails  *)
(* when the file it found was already the updated text without its         *)
(* newline (left by an earlier crash) and it is killed at that same point. *)
(***************************************************************************)
Incomplete(p) == pc[p] \in Writing /\ file # Full(manifest[p])

C8_CrashNeverLeavesEitherDocument ==
    [][\A p \in Procs :
          (pc[p] \in Active /\ pc'[p] = "killed") =>
              /\ stdout'[p] = <<>>
              /\ pc[p] \in {"main", "loaded", "updated"} => file' = pre[p]
              /\ Incomplete(p) =>
                     /\ file'.kind \in {"empty", "prefix", "nonl"}
                     /\ file' # Full(manifest[p])
                     /\ file' # pre[p]]_vars

(***************************************************************************)
(* C8 amended: whenever an invocation is killed: it has printed no         *)
(* confirmation; if it had not yet opened the file for writing, the file   *)
(* is the one it found; if it had opened it and the text and its newline   *)
(* are not completely on disk, the file is a proper prefix of the updated  *)
(* file (empty, partial, or all of the text without its newline), so never *)
(* the updated file, and it differs from the file it found unless that     *)
(* file was itself the updated text without its newline.                   *)
(***************************************************************************)
C8_CrashLeavesProperPrefix ==
    [][\A p \in Procs :
          (pc[p] \in Active /\ pc'[p] = "killed") =>
              /\ stdout'[p] = <<>>
              /\ pc[p] \in {"main", "loaded", "updated"} => file' = pre[p]
              /\ Incomplete(p) =>
                     /\ file' \in {Empty, Prefix(manifest[p]),
                                   NoNl(manifest[p])}
                     /\ file' # Full(manifest[p])
                     /\ pre[p] # NoNl(manifest[p]) => file' # pre[p]]_vars

\* An invocation was killed with a part of the text on disk, another one
\* before it had opened the file.
C8_Witness ==
    /\ pc[1] = "killed"
    /\ file = Prefix(manifest[1])
    /\ ExpectedShape(pre[1])
    /\ file # pre[1]
    /\ stdout[1] = <<>>

(***************************************************************************)
(* C7: lost update.  With two runners, both invocations can succeed and    *)
(* print their confirmation while the manifest holds only one of the two   *)
(* versions; this happens only when the two invocations overlap.  Whenever *)
(* nobody is writing, nobody was killed and the invocations did not        *)
(* overlap, every confirmed version is in the file.                        *)
(***************************************************************************)
Present(ver) ==
    /\ Parses(file)
    /\ Len(file.doc) > 0
    /\ "versions" \in DOMAIN file.doc[1]
    /\ Positions(VersionsIn(file), ver) # {}

C7_LostUpdateOnlyWhenOverlapping ==
    (/\ \A p \in Procs : pc[p] \notin Writing
     /\ ~killed
     /\ \E ver \in confirmed : ~Present(ver))
        => overlap

\* Both runners have confirmed a new version of their own, and the file is
\* a complete manifest that holds only the second runner's.
C7_Witness ==
    /\ pc[1] = "done" /\ pc[2] = "done"
    /\ exit[1] = 0 /\ exit[2] = 0
    /\ stdout[1] = << <<"updated", "1.0">> >>
    /\ stdout[2] = << <<"updated", "1.1">> >>
    /\ ~killed
    /\ ExpectedShape(file0) /\ VersionsIn(file0) = <<>>
    /\ file.kind = "full"
    /\ ~Present("1.0")
    /\ Present("1.1")

=============================================================================
